---- MODULE Spec2Model ----
(***************************************************************************)
(* A model of the cocktail suggestion system: the ingestion pipeline of    *)
(* data_processor.py (clean_data, get_ingredents_list, create_recipe_text, *)
(* store_cocktails, process_and_store) against the store declared in       *)
(* database_setup.py, and the search form handlers of app.py.              *)
(*                                                                         *)
(* Python strings are TLA+ strings; TLC evaluates Len, SubSeq and \o on    *)
(* them, so stripping, parsing and formatting are computed character by    *)
(* character.                                                              *)
(***************************************************************************)
EXTENDS Integers, Sequences, FiniteSets, TLC

(***************************************************************************)
(* Bounds of the model.                                                    *)
(***************************************************************************)
\* Longest ingredient / measure list literal, and number of freely chosen
\* legacy slots, of an input row.
MaxLen == 2
\* Numbered legacy columns present in a legacy input row (one more than the
\* code scans, so that the scan's upper limit is exercised).
LegacyCols == 16

(***************************************************************************)
(* Python values.                                                          *)
(***************************************************************************)
\* Python's None (a None element of a list literal, or what row.get returns
\* for an absent column).  No text of the model equals this marker.
PyNone == "<py:None>"

\* bool(v) of a string or None.
Truthy(v) == v # PyNone /\ v # ""

\* str(v) of a string or None.
Str(v) == IF v = PyNone THEN "None" ELSE v

CharAt(s, i) == SubSeq(s, i, i)

RECURSIVE LStrip(_)
LStrip(s) == IF Len(s) > 0 /\ CharAt(s, 1) = " " THEN LStrip(Tail(s)) ELSE s

RECURSIVE RStrip(_)
RStrip(s) ==
    IF Len(s) > 0 /\ CharAt(s, Len(s)) = " "
    THEN RStrip(SubSeq(s, 1, Len(s) - 1))
    ELSE s

\* str.strip()
Strip(s) == RStrip(LStrip(s))

\* str.startswith('[')
StartsWithBracket(s) == Len(s) > 0 /\ CharAt(s, 1) = "["

RECURSIVE JoinFrom(_, _, _)
JoinFrom(seq, sep, i) ==
    IF i > Len(seq) THEN ""
    ELSE IF i = Len(seq) THEN seq[i]
    ELSE seq[i] \o sep \o JoinFrom(seq, sep, i + 1)

\* sep.join(seq)
Join(seq, sep) == JoinFrom(seq, sep, 1)

(***************************************************************************)
(* ast.literal_eval on a text that starts with '[': a list of              *)
(* single-quoted strings and None, separated by commas.  The result is     *)
(* [ok |-> TRUE, val |-> the list] or, where literal_eval raises,          *)
(* [ok |-> FALSE, val |-> <<>>].                                           *)
(***************************************************************************)
ParseErr == [ok |-> FALSE, val |-> <<>>]

RECURSIVE SkipSpaces(_, _)
SkipSpaces(s, i) ==
    IF i <= Len(s) /\ CharAt(s, i) = " " THEN SkipSpaces(s, i + 1) ELSE i

\* Position of the next quote at or after i, or 0.
RECURSIVE FindQuote(_, _)
FindQuote(s, i) ==
    IF i > Len(s) THEN 0
    ELSE IF CharAt(s, i) = "'" THEN i
    ELSE FindQuote(s, i + 1)

RECURSIVE ParseElems(_, _, _)
RECURSIVE ParseAfterElem(_, _, _)

\* After the closing bracket only whitespace may follow.
ParseClose(s, i, acc) ==
    IF SkipSpaces(s, i) > Len(s) THEN [ok |-> TRUE, val |-> acc] ELSE ParseErr

\* At i: an element, or the closing bracket.
ParseElems(s, i, acc) ==
    LET j == SkipSpaces(s, i) IN
    IF j > Len(s) THEN ParseErr
    ELSE IF CharAt(s, j) = "]" THEN ParseClose(s, j + 1, acc)
    ELSE IF CharAt(s, j) = "'" THEN
        LET k == FindQuote(s, j + 1) IN
        IF k = 0 THEN ParseErr
        ELSE ParseAfterElem(s, k + 1, Append(acc, SubSeq(s, j + 1, k - 1)))
    ELSE IF j + 3 <= Len(s) /\ SubSeq(s, j, j + 3) = "None" THEN
        ParseAfterElem(s, j + 4, Append(acc, PyNone))
    ELSE ParseErr

\* At i: a comma, or the closing bracket.
ParseAfterElem(s, i, acc) ==
    LET j == SkipSpaces(s, i) IN
    IF j > Len(s) THEN ParseErr
    ELSE IF CharAt(s, j) = "]" THEN ParseClose(s, j + 1, acc)
    ELSE IF CharAt(s, j) = "," THEN
        LET k == SkipSpaces(s, j + 1) IN
        IF k <= Len(s) /\ CharAt(s, k) = "," THEN ParseErr
        ELSE ParseElems(s, j + 1, acc)
    ELSE ParseErr

literal_eval(s) ==
    IF StartsWithBracket(s) THEN ParseElems(s, 2, <<>>) ELSE ParseErr

(***************************************************************************)
(* Source rows.  A row is a function from the column names it has to       *)
(* their cells; after clean_data's fillna("") every cell is a string.      *)
(***************************************************************************)
\* 'col' in row
HasCol(row, col) == col \in DOMAIN row

\* row.get(col): None when the column is absent.
RowGet(row, col) == IF HasCol(row, col) THEN row[col] ELSE PyNone

\* row.get(col, '')
RowGetOrEmpty(row, col) == IF HasCol(row, col) THEN row[col] ELSE ""

\* The per-field column detection repeated in clean_data, create_recipe_text
\* and store_cocktails.
NameCol(row) == IF HasCol(row, "name") THEN "name" ELSE "strDrink"
CategoryCol(row) == IF HasCol(row, "category") THEN "category" ELSE "strCategory"
AlcoholicCol(row) == IF HasCol(row, "alcoholic") THEN "alcoholic" ELSE "strAlcoholic"
GlassCol(row) == IF HasCol(row, "glassType") THEN "glassType" ELSE "strGlass"
InstructionsCol(row) ==
    IF HasCol(row, "instructions") THEN "instructions" ELSE "strInstructions"

\* range(1, 16): the legacy slots scanned.
NumSlots == 15

IngredientCol(i) == "strIngredient" \o ToString(i)
MeasureCol(i) == "strMeasure" \o ToString(i)

\* The branch test shared by get_ingredents_list and create_recipe_text:
\* 'ingredients' in row and row['ingredients'].
UsesNewFormat(row) == HasCol(row, "ingredients") /\ Truthy(row["ingredients"])

(***************************************************************************)
(* get_ingredents_list                                                     *)
(***************************************************************************)
\* The test guarding ingredients.append for an element of the parsed list.
KeepListIngredient(v) ==
    Truthy(v) /\ Strip(Str(v)) # "" /\ Strip(Str(v)) # "None"

\* The test guarding ingredients.append for a legacy slot.
KeepLegacyIngredient(v) ==
    Truthy(v) /\ Strip(Str(v)) # "" /\ Strip(Str(v)) # "nan"

StripAll(seq) == [i \in 1..Len(seq) |-> Strip(Str(seq[i]))]

\* The single-entry list of the scalar branch and of the except branch.
WholeFieldIngredient(raw) == IF Strip(raw) # "" THEN <<Strip(raw)>> ELSE <<>>

LegacySlots(row) == [i \in 1..NumSlots |-> RowGet(row, IngredientCol(i))]

\* A call's result: the value returned, or an exception leaving the call.
Returned(v) == [raised |-> FALSE, val |-> v]
Raised == [raised |-> TRUE, val |-> <<>>]

\* No except branch: the exception of literal_eval leaves the call.
IngredientsOnParseErrorRaises(raw) == Raised

\* The except branch of get_ingredents_list: the raw field as one ingredient.
IngredientsOnParseError(raw) == Returned(WholeFieldIngredient(raw))

\* The list `ingredients` that get_ingredents_list builds.
IngredientsOf(row) ==
    IF UsesNewFormat(row)
    THEN LET raw == row["ingredients"] IN
         IF StartsWithBracket(raw)
         THEN LET parsed == literal_eval(raw) IN
              IF parsed.ok
              THEN Returned(StripAll(SelectSeq(parsed.val, KeepListIngredient)))
              ELSE IngredientsOnParseError(raw)
         ELSE Returned(WholeFieldIngredient(raw))
    ELSE Returned(StripAll(SelectSeq(LegacySlots(row), KeepLegacyIngredient)))

\* Its return value: ', '.join(ingredients).
get_ingredents_list(row) ==
    LET r == IngredientsOf(row) IN
    IF r.raised THEN Raised ELSE Returned(Join(r.val, ", "))

(***************************************************************************)
(* create_recipe_text                                                      *)
(***************************************************************************)
\* The test on measures[i] in the new-format loop.
UseListMeasure(measures, i) ==
    i <= Len(measures) /\ Truthy(measures[i]) /\ Strip(Str(measures[i])) # "None"

\* The test on the measure of a legacy slot.
UseLegacyMeasure(m) ==
    Truthy(m) /\ Strip(Str(m)) # "" /\ Strip(Str(m)) # "nan"

WithMeasure(m, ing) == "- " \o Str(m) \o " " \o Str(ing) \o "\n"
WithoutMeasure(ing) == "- " \o Str(ing) \o "\n"

RECURSIVE NewFormatLines(_, _, _)
NewFormatLines(ingredients, measures, i) ==
    IF i > Len(ingredients) THEN ""
    ELSE (IF KeepListIngredient(ingredients[i])
          THEN IF UseListMeasure(measures, i)
               THEN WithMeasure(measures[i], ingredients[i])
               ELSE WithoutMeasure(ingredients[i])
          ELSE "")
         \o NewFormatLines(ingredients, measures, i + 1)

RECURSIVE LegacyLines(_, _)
LegacyLines(row, i) ==
    IF i > NumSlots THEN ""
    ELSE (LET ingredient == RowGet(row, IngredientCol(i))
              measure == RowGet(row, MeasureCol(i))
          IN  IF KeepLegacyIngredient(ingredient)
              THEN IF UseLegacyMeasure(measure)
                   THEN WithMeasure(measure, ingredient)
                   ELSE WithoutMeasure(ingredient)
              ELSE "")
         \o LegacyLines(row, i + 1)

\* A field read inside the try block: the parsed list, the field as a
\* one-element list, or a raised exception (ok = FALSE).
ListOrScalar(raw) ==
    IF StartsWithBracket(raw) THEN literal_eval(raw)
    ELSE [ok |-> TRUE, val |-> <<raw>>]

MeasuresOf(row) ==
    IF HasCol(row, "ingredientMeasures") /\ Truthy(row["ingredientMeasures"])
    THEN ListOrScalar(row["ingredientMeasures"])
    ELSE [ok |-> TRUE, val |-> <<>>]

\* The except branch of create_recipe_text: one line holding the raw field.
LinesOnParseError(raw) == Returned(WithoutMeasure(raw))

\* The lines appended after "Ingredients:".
IngredientLines(row) ==
    IF UsesNewFormat(row)
    THEN LET ingredients == ListOrScalar(row["ingredients"])
             measures == MeasuresOf(row)
         IN  IF ingredients.ok /\ measures.ok
             THEN Returned(NewFormatLines(ingredients.val, measures.val, 1))
             ELSE LinesOnParseError(row["ingredients"])
    ELSE Returned(LegacyLines(row, 1))

RecipeHeader(row) ==
    "\nDrink: " \o RowGetOrEmpty(row, NameCol(row)) \o "\n "
    \o "Category: " \o RowGetOrEmpty(row, CategoryCol(row)) \o "\n"
    \o "Type: " \o RowGetOrEmpty(row, AlcoholicCol(row)) \o "\n"
    \o "Glass: " \o RowGetOrEmpty(row, GlassCol(row)) \o "\n"
    \o (IF Truthy(RowGet(row, InstructionsCol(row)))
        THEN "Instructions: " \o RowGetOrEmpty(row, InstructionsCol(row)) \o "\n"
        ELSE "")
    \o "Ingredients:\n"

create_recipe_text(row) ==
    LET r == IngredientLines(row) IN
    IF r.raised THEN Raised ELSE Returned(RecipeHeader(row) \o r.val)

(***************************************************************************)
(* Input rows: the cells a CSV can hold, within the bounds.                *)
(***************************************************************************)
SeqsUpTo(S, n) == UNION {[1..k -> S] : k \in 0..n}

\* Elements of an ingredients list literal: names (one padded), a
\* whitespace-only text, the text None and the value None.
ListIngredientValues == {"Gin", " Vermouth", " ", "None", PyNone}
\* Elements of an ingredientMeasures list literal.
ListMeasureValues == {"2 oz", " ", "None", PyNone}
\* Elements of the literals that are cut short or written without quotes.
MalformedValues == {"Gin", "None"}
\* An ingredients cell that is no list literal.
ScalarIngredientFields == {"", "Gin", " Vermouth ", " ", " None"}
\* An ingredientMeasures cell that is no list literal.
ScalarMeasureFields == {"", "2 oz", " "}
\* Cells of the numbered legacy columns.
LegacyIngredientValues == {"Gin", " Vermouth", "", " ", " nan"}
LegacyMeasureValues == {"2 oz", " ", " nan"}

\* repr of a list element: 'text' or None.
Quote(v) == IF v = PyNone THEN "None" ELSE "'" \o v \o "'"

\* The text of a list literal, e.g. ['Gin', 'Grand Marnier'].
ListLiteral(items) ==
    "[" \o Join([i \in 1..Len(items) |-> Quote(items[i])], ", ") \o "]"

\* The same text cut before its closing bracket.
UnclosedLiteral(items) ==
    "[" \o Join([i \in 1..Len(items) |-> Quote(items[i])], ", ")

\* The same text with its quotes left out, e.g. [Gin, Grand Marnier].
UnquotedLiteral(items) ==
    "[" \o Join([i \in 1..Len(items) |-> Str(items[i])], ", ") \o "]"

IngredientFields ==
    ScalarIngredientFields
    \cup {ListLiteral(x) : x \in SeqsUpTo(ListIngredientValues, MaxLen)}
    \cup {UnclosedLiteral(x) : x \in SeqsUpTo(MalformedValues, MaxLen)}
    \cup {UnquotedLiteral(x) : x \in SeqsUpTo(MalformedValues, MaxLen)}

MeasureFields ==
    ScalarMeasureFields
    \cup {ListLiteral(x) : x \in SeqsUpTo(ListMeasureValues, MaxLen)}
    \cup {UnclosedLiteral(x) : x \in SeqsUpTo(MalformedValues, MaxLen)}

NewRowBase(name) ==
    [c \in {"name", "category", "alcoholic", "glassType", "instructions"} |->
        CASE c = "name" -> name
          [] c = "category" -> "Cocktail"
          [] c = "alcoholic" -> "Alcoholic"
          [] c = "glassType" -> "Cocktail glass"
          [] c = "instructions" -> "Stir"]

\* A new-shape row; measures = PyNone stands for a CSV with no
\* ingredientMeasures column.
NewRow(name, ingredients, measures) ==
    IF measures = PyNone
    THEN NewRowBase(name) @@ ("ingredients" :> ingredients)
    ELSE NewRowBase(name) @@ ("ingredients" :> ingredients)
                          @@ ("ingredientMeasures" :> measures)

NewRows ==
    {NewRow("Martini", i, m) : i \in IngredientFields, m \in MeasureFields \cup {PyNone}}

LegacyRowBase(name) ==
    [c \in {"strDrink", "strCategory", "strAlcoholic", "strGlass", "strInstructions"} |->
        CASE c = "strDrink" -> name
          [] c = "strCategory" -> "Ordinary Drink"
          [] c = "strAlcoholic" -> "Alcoholic"
          [] c = "strGlass" -> "Highball glass"
          [] c = "strInstructions" -> ""]

\* The cell of numbered column i: chosen freely for the first slots, the
\* same filler in all the others.
SlotCell(cells, fill, i) == IF i <= Len(cells) THEN cells[i] ELSE fill

\* A legacy-shape row with LegacyCols numbered ingredient and measure columns.
LegacyRow(name, ings, fill, meas, mfill) ==
    LegacyRowBase(name)
    @@ [c \in {IngredientCol(i) : i \in 1..LegacyCols} |->
          SlotCell(ings, fill, CHOOSE i \in 1..LegacyCols : IngredientCol(i) = c)]
    @@ [c \in {MeasureCol(i) : i \in 1..LegacyCols} |->
          SlotCell(meas, mfill, CHOOSE i \in 1..LegacyCols : MeasureCol(i) = c)]

\* Legacy rows: the columns after the first MaxLen are all empty, or all
\* hold an ingredient with its measure.
LegacyRows ==
    {LegacyRow("Mojito", i, f[1], m, f[2]) :
        i \in [1..MaxLen -> LegacyIngredientValues],
        f \in {<<"", "">>, <<"Gin", "1 oz">>},
        m \in [1..MaxLen -> LegacyMeasureValues]}

(***************************************************************************)
(* clean_data                                                              *)
(***************************************************************************)
\* No de-duplication: every row stays.
keep_all_rows(rows) == rows

\* df.drop_duplicates(subset=[name_col]): the first row of each name stays.
RECURSIVE DropDuplicatesFrom(_, _, _)
DropDuplicatesFrom(rows, i, seen) ==
    IF i > Len(rows) THEN <<>>
    ELSE LET n == rows[i][NameCol(rows[i])] IN
         IF n \in seen
         THEN DropDuplicatesFrom(rows, i + 1, seen)
         ELSE <<rows[i]>> \o DropDuplicatesFrom(rows, i + 1, seen \cup {n})

drop_duplicates(rows) == DropDuplicatesFrom(rows, 1, {})

\* str.replace(r'\s+', ' ', regex=True): every run of whitespace becomes one
\* space.
RECURSIVE CollapseFrom(_, _)
CollapseFrom(s, i) ==
    IF i > Len(s) THEN ""
    ELSE IF CharAt(s, i) = " "
         THEN " " \o CollapseFrom(s, SkipSpaces(s, i))
         ELSE CharAt(s, i) \o CollapseFrom(s, i + 1)

CollapseWhitespace(s) == Strip(CollapseFrom(s, 1))

\* The strIngredient* columns of a legacy frame, in column order.
RECURSIVE LegacyIngredientText(_, _)
LegacyIngredientText(row, i) ==
    IF ~HasCol(row, IngredientCol(i)) THEN ""
    ELSE row[IngredientCol(i)] \o " " \o LegacyIngredientText(row, i + 1)

\* The text clean_data composes for a row, before it is collapsed.
CombinedFields(row) ==
    row[NameCol(row)] \o " "
    \o row[CategoryCol(row)] \o " "
    \o row[AlcoholicCol(row)] \o " "
    \o row[GlassCol(row)] \o " "
    \o (IF HasCol(row, "ingredients")
        THEN row["ingredients"] \o " "
        ELSE LegacyIngredientText(row, 1))
    \o row[InstructionsCol(row)] \o " "

combined_text(row) == CollapseWhitespace(CombinedFields(row))

\* clean_data on a non-empty frame: de-duplicate by name, then add the
\* combined_text column.
clean_data(rows) ==
    LET kept == drop_duplicates(rows) IN
    [i \in 1..Len(kept) |-> kept[i] @@ ("combined_text" :> combined_text(kept[i]))]

(***************************************************************************)
(* The Embedder and the store.                                             *)
(***************************************************************************)
\* The width of the embedding column: vector(384).
EmbeddingWidth == 384

\* The widths the configured model (MODEL_NAME) may produce.
EmbedderWidths == {EmbeddingWidth, 768}

\* model.encode(texts): one vector per text, in order; a vector is known by
\* the text it embeds and its width.
\* An Embedder that returns the vectors in the reverse order of the texts.
generate_embeddings_reversed(texts, width) ==
    [i \in 1..Len(texts) |-> [of |-> texts[Len(texts) + 1 - i], width |-> width]]

generate_embeddings(texts, width) ==
    [i \in 1..Len(texts) |-> [of |-> texts[i], width |-> width]]

\* A column declared without a width takes any vector.
StoreAcceptsAnyVector(v) == TRUE

\* The store takes a row only when its vector has the column's width.
StoreAcceptsVector(v) == v.width = EmbeddingWidth

\* The steps with the Embedder called before the DELETE.
ProgramOrderEmbedFirst == <<"connect", "embed", "clear", "insert", "commit">>

\* The steps of store_cocktails in program order; pc names the step to run
\* next.
ProgramOrder == <<"connect", "clear", "embed", "insert", "commit">>

StepAfter(step) ==
    LET i == CHOOSE k \in 1..Len(ProgramOrder) : ProgramOrder[k] = step IN
    ProgramOrder[i + 1]

\* Exceptions, by what raises them.  A statement error leaves the connection
\* usable; after a lost connection every call on it raises.
PermissionDenied ==
    [kind |-> "statement", msg |-> "permission denied for table cocktails"]
ConnectionLost ==
    [kind |-> "connection", msg |-> "server closed the connection unexpectedly"]
WidthMismatch ==
    [kind |-> "statement", msg |-> "expected 384 dimensions, not 768"]
EmbedderFailure ==
    [kind |-> "embedder", msg |-> "CUDA out of memory"]
NoConnection ==
    [kind |-> "attribute", msg |-> "'NoneType' object has no attribute 'cursor'"]
RowFailure ==
    [kind |-> "row", msg |-> "malformed node or string"]
NoException == [kind |-> "none", msg |-> ""]

\* What each store or embedder call may raise.
ClearErrors == {PermissionDenied, ConnectionLost}
EmbedErrors == {EmbedderFailure}
InsertErrors == {PermissionDenied, ConnectionLost}

\* print(f"Error storing cocktails: {e}")
ErrorReport(e) == "Error storing cocktails: " \o e.msg

\* print(f"Successfully stored {len(df)} cocktails in the database")
SuccessReport(n) ==
    "Successfully stored " \o ToString(n) \o " cocktails in the database"

\* A connection switched to ISOLATION_LEVEL_AUTOCOMMIT, as create_database's.
AutocommitOn == TRUE

\* get_connection leaves the connection in psycopg2's default mode: the
\* statements of a call form one transaction, ended by commit() or rollback().
Autocommit == FALSE

\* INSERT's row: the prepared values and the row's vector.
StoredRow(r, ingredients, recipe, embedding) ==
    [name |-> RowGetOrEmpty(r, NameCol(r)),
     ingredients |-> ingredients,
     recipe |-> recipe,
     glass |-> RowGetOrEmpty(r, GlassCol(r)),
     category |-> RowGetOrEmpty(r, CategoryCol(r)),
     alcoholic |-> RowGetOrEmpty(r, AlcoholicCol(r)),
     embedding |-> embedding]

(***************************************************************************)
(* The corpora ingested.                                                   *)
(***************************************************************************)
\* Rows of a CSV, at most.
MaxRows == 2

NewCorpusRows ==
    {NewRow("Margarita", "['Tequila', 'Lime']", "['2 oz', None]"),
     NewRow("Margarita", "Tequila", PyNone),
     NewRow("Martini", "['Gin', 'Vermouth'", "['2 oz']")}

LegacyCorpusRows ==
    {LegacyRow("Mojito", <<"Rum", "Mint">>, "", <<"2 oz", " ">>, ""),
     LegacyRow("Daiquiri", <<"Rum">>, "", <<>>, "")}

\* A corpus whose second row repeats the name of the first: drop_duplicates
\* leaves the rows labelled 0 and 2.
RepeatedNameCorpus ==
    <<NewRow("Margarita", "['Tequila', 'Lime']", "['2 oz', None]"),
      NewRow("Margarita", "Tequila", PyNone),
      NewRow("Martini", "['Gin', 'Vermouth'", "['2 oz']")>>

\* A corpus uses one shape throughout.
Corpora ==
    SeqsUpTo(NewCorpusRows, MaxRows) \cup SeqsUpTo(LegacyCorpusRows, MaxRows)
    \cup {RepeatedNameCorpus}

(***************************************************************************)
(* State.                                                                  *)
(***************************************************************************)
VARIABLES
    \* The body of store_cocktails' loop for one row:
    row,              \* the row at hand
    rstep,            \* "input", "normalized", "rendered", "inserted", "raised"
    ingredients_out,  \* the list get_ingredents_list built
    ingredients_str,  \* the string get_ingredents_list returned
    recipe_out,       \* the string create_recipe_text returned
    insert_args,      \* the tuple handed to INSERT
    \* The store:
    committed,        \* the committed rows of table cocktails, in insertion order
    txn,              \* the rows as the open transaction sees them
    txn_state,        \* "none", "active", "committed", "rolled back", "aborted"
    \* One call of process_and_store:
    pc,               \* the step to run next; "idle" before and "done" after a call
    csv,              \* the rows of the CSV file
    df,               \* the cleaned frame
    width,            \* the width of the vectors the configured model produces
    connection,       \* "unset", "open", "closed", "broken", "None"
    all_embeddings,   \* the vectors generate_embeddings returned
    idx,              \* rows inserted so far by the loop
    exc,              \* the exception caught by the except branch
    failed_stage,     \* the step that failed, or "none"
    outcome,          \* "running", "returned", "raised": how the call ended
    printed,          \* the last line print() wrote
    before,           \* the committed rows when the call began
    last_failure,     \* the stage and the report of the latest earlier failed call
    events,           \* the store and embedder calls issued by the call
    \* The page of app.py, as its latest script run left it:
    search_type,      \* the option chosen in the sidebar
    widgets,          \* the values of the widgets of the page at hand
    session_state,    \* st.session_state: search_results, last_search_type
    buttons,          \* the keys of the buttons the run rendered
    calls,            \* the recommender searches the run made
    results,          \* what the run's handler returned
    cards,            \* the cards the run displayed
    notice,           \* whether the run showed "No cocktails found ..."
    \* Another connection, reading the table while a call is under way:
    seen,             \* what its latest query returned, and over which table
    \* Two calls of store_cocktails at once, each on its own connection:
    cocktails,        \* the committed rows of the table, each with its id
    sess,             \* per call: step, frame, rows deleted and inserted so far
    finished,         \* the calls that ended, in order, and how
    overlapped        \* whether a call began its transaction during the other's

rowVars == <<row, rstep, ingredients_out, ingredients_str, recipe_out, insert_args>>

storeVars == <<committed, txn, txn_state>>

runVars == <<pc, csv, df, width, connection, all_embeddings, idx, exc,
             failed_stage, outcome, printed, before, last_failure, events>>

uiVars == <<search_type, widgets, session_state, buttons, calls, results,
            cards, notice>>

readerVars == <<seen>>

twoRunVars == <<cocktails, sess, finished, overlapped>>

vars == <<rowVars, storeVars, runVars, uiVars, readerVars, twoRunVars>>

NoRow == <<>>

RowIdle ==
    /\ row = NoRow
    /\ rstep = "idle"
    /\ ingredients_out = <<>>
    /\ ingredients_str = ""
    /\ recipe_out = ""
    /\ insert_args = <<>>

NoFailure == [stage |-> "none", report |-> ""]

\* No pair of calls is under way.
TwoRunsIdle ==
    /\ cocktails = <<>>
    /\ sess = <<>>
    /\ finished = <<>>
    /\ overlapped = FALSE

\* No query has been made during the call at hand.
NoQuery == [asked |-> FALSE, rows |-> <<>>, inflight |-> <<>>]

\* No script run of the page has happened.
PageIdle ==
    /\ search_type = ""
    /\ widgets = <<>>
    /\ session_state = <<>>
    /\ buttons = {}
    /\ calls = <<>>
    /\ results = <<>>
    /\ cards = <<>>
    /\ notice = FALSE

IngestIdle ==
    /\ committed = <<>>
    /\ txn = <<>>
    /\ txn_state = "none"
    /\ pc = "idle"
    /\ csv = <<>>
    /\ df = <<>>
    /\ width = EmbeddingWidth
    /\ connection = "unset"
    /\ all_embeddings = <<>>
    /\ idx = 0
    /\ exc = NoException
    /\ failed_stage = "none"
    /\ outcome = "running"
    /\ printed = ""
    /\ before = <<>>
    /\ last_failure = NoFailure
    /\ events = <<>>
    /\ seen = NoQuery
    /\ PageIdle

(***************************************************************************)
(* The per-row body of store_cocktails' loop (lines 206-217), one row at a *)
(* time: ingredients = get_ingredents_list(row), recipe =                  *)
(* create_recipe_text(row), then the INSERT of the prepared values.  An    *)
(* exception leaving either call leaves the loop.                          *)
(***************************************************************************)
RowInit ==
    /\ row \in NewRows \cup LegacyRows
    /\ rstep = "input"
    /\ ingredients_out = <<>>
    /\ ingredients_str = ""
    /\ recipe_out = ""
    /\ insert_args = <<>>
    /\ IngestIdle
    /\ TwoRunsIdle

CallGetIngredients ==
    /\ rstep = "input"
    /\ LET l == IngredientsOf(row)
           r == get_ingredents_list(row)
       IN  IF r.raised
           THEN /\ rstep' = "raised"
                /\ UNCHANGED <<ingredients_out, ingredients_str>>
           ELSE /\ rstep' = "normalized"
                /\ ingredients_out' = l.val
                /\ ingredients_str' = r.val
    /\ UNCHANGED <<row, recipe_out, insert_args, storeVars, runVars, uiVars, readerVars, twoRunVars>>

CallCreateRecipe ==
    /\ rstep = "normalized"
    /\ LET r == create_recipe_text(row) IN
       IF r.raised
       THEN /\ rstep' = "raised"
            /\ UNCHANGED recipe_out
       ELSE /\ rstep' = "rendered"
            /\ recipe_out' = r.val
    /\ UNCHANGED <<row, ingredients_out, ingredients_str, insert_args, storeVars, runVars, uiVars, readerVars, twoRunVars>>

\* The values of the INSERT statement's placeholders, without the embedding.
InsertValues(r, ingredients, recipe) ==
    [name |-> RowGetOrEmpty(r, NameCol(r)),
     ingredients |-> ingredients,
     recipe |-> recipe,
     glass |-> RowGetOrEmpty(r, GlassCol(r)),
     category |-> RowGetOrEmpty(r, CategoryCol(r)),
     alcoholic |-> RowGetOrEmpty(r, AlcoholicCol(r))]

PrepareInsert ==
    /\ rstep = "rendered"
    /\ rstep' = "inserted"
    /\ insert_args' = InsertValues(row, ingredients_str, recipe_out)
    /\ UNCHANGED <<row, ingredients_out, ingredients_str, recipe_out, storeVars, runVars, uiVars, readerVars, twoRunVars>>

RowNext == CallGetIngredients \/ CallCreateRecipe \/ PrepareInsert

SpecRow == RowInit /\ [][RowNext]_vars

(***************************************************************************)
(* process_and_store: load_data, clean_data, then store_cocktails, one     *)
(* store or embedder call per step.                                        *)
(***************************************************************************)
Init ==
    /\ RowIdle
    /\ IngestIdle
    /\ TwoRunsIdle

\* The step after `step`; the insert loop is skipped for an empty frame.
Advance(step, frame) ==
    IF StepAfter(step) = "insert" /\ Len(frame) = 0
    THEN StepAfter("insert")
    ELSE StepAfter(step)

\* An exception raised inside the try block of store_cocktails.
Raise(e, stage) ==
    /\ exc' = e
    /\ failed_stage' = stage
    /\ pc' = "except"

\* process_and_store(csv_path) is called with some CSV file and some model.
StartRun ==
    /\ pc = "idle"
    /\ csv' \in Corpora
    /\ width' \in EmbedderWidths
    /\ pc' = "load"
    /\ before' = committed
    /\ UNCHANGED <<df, connection, all_embeddings, idx, exc, failed_stage, outcome,
                   printed, last_failure, events, storeVars, rowVars, uiVars, readerVars, twoRunVars>>

\* The call is over: its locals are gone.  What stays is the store, and the
\* record of the failure report if the call failed in store_cocktails.
ReturnToCaller ==
    /\ pc = "done"
    /\ pc' = "idle"
    /\ last_failure' = IF failed_stage \in {"clear", "embed", "insert"}
                       THEN [stage |-> failed_stage, report |-> printed]
                       ELSE last_failure
    /\ csv' = <<>>
    /\ df' = <<>>
    /\ width' = EmbeddingWidth
    /\ connection' = "unset"
    /\ all_embeddings' = <<>>
    /\ idx' = 0
    /\ exc' = NoException
    /\ failed_stage' = "none"
    /\ outcome' = "running"
    /\ printed' = ""
    /\ before' = <<>>
    /\ events' = <<>>
    /\ txn' = <<>>
    /\ txn_state' = "none"
    /\ seen' = NoQuery
    /\ UNCHANGED <<committed, rowVars, uiVars, twoRunVars>>

\* load_data: the frame, or None (and process_and_store returns) when the
\* file cannot be read.
LoadData ==
    /\ pc = "load"
    /\ \/ /\ pc' = "clean"
          /\ UNCHANGED <<failed_stage, outcome, printed>>
       \/ /\ pc' = "done"
          /\ failed_stage' = "load"
          /\ outcome' = "returned"
          /\ printed' = "Error loading data: No such file or directory"
    /\ UNCHANGED <<csv, df, width, connection, all_embeddings, idx, exc, before,
                   last_failure, events, storeVars, rowVars, uiVars, readerVars, twoRunVars>>

\* clean_data; on an empty frame df['combined_text'].iloc[0] raises
\* IndexError, which leaves process_and_store.
CleanData ==
    /\ pc = "clean"
    /\ IF csv = <<>>
       THEN /\ pc' = "done"
            /\ failed_stage' = "clean"
            /\ outcome' = "raised"
            /\ UNCHANGED df
       ELSE /\ pc' = "connect"
            /\ df' = clean_data(csv)
            /\ UNCHANGED <<failed_stage, outcome>>
    /\ UNCHANGED <<csv, width, connection, all_embeddings, idx, exc, printed,
                   before, last_failure, events, storeVars, rowVars, uiVars, readerVars, twoRunVars>>

\* connection = self.db_setup.get_connection(); cursor = connection.cursor().
\* get_connection returns None when it cannot connect, and None has no
\* cursor().
GetConnection ==
    /\ pc = "connect"
    /\ events' = Append(events, "connect")
    /\ \/ /\ connection' = "open"
          /\ pc' = Advance("connect", df)
          /\ UNCHANGED <<exc, failed_stage, printed>>
       \/ /\ connection' = "None"
          /\ printed' = "Error connecting to the database: could not connect to server"
          /\ Raise(NoConnection, "connect")
    /\ UNCHANGED <<csv, df, width, all_embeddings, idx, outcome, before,
                   last_failure, storeVars, rowVars, uiVars, readerVars, twoRunVars>>

\* The rows a statement of the call sees: the transaction begins with the
\* first statement, on the committed rows.
Visible == IF txn_state = "active" THEN txn ELSE committed

\* A statement that succeeds and leaves the table holding `rows`: inside the
\* call's transaction, or at once when the connection commits by itself.
Execute(rows) ==
    IF Autocommit
    THEN /\ committed' = rows
         /\ UNCHANGED <<txn, txn_state>>
    ELSE /\ txn' = rows
         /\ txn_state' = "active"
         /\ UNCHANGED committed

\* A statement that fails: the server aborts the transaction, and a lost
\* connection stays lost.
ExecuteFails(e) ==
    /\ txn' = <<>>
    /\ txn_state' = IF Autocommit THEN txn_state ELSE "aborted"
    /\ connection' = IF e.kind = "connection" THEN "broken" ELSE connection
    /\ UNCHANGED committed

\* cursor.execute("DELETE FROM cocktails")
ClearTable ==
    /\ pc = "clear"
    /\ \/ /\ events' = Append(events, "DELETE")
          /\ Execute(<<>>)
          /\ pc' = Advance("clear", df)
          /\ UNCHANGED <<exc, failed_stage, connection>>
       \/ \E e \in ClearErrors :
            /\ events' = Append(events, "DELETE failed")
            /\ Raise(e, "clear")
            /\ ExecuteFails(e)
    /\ UNCHANGED <<csv, df, width, all_embeddings, idx, outcome, printed, before,
                   last_failure, rowVars, uiVars, readerVars, twoRunVars>>

\* all_embeddings = self.generate_embeddings(df['combined_text'].to_list())
GenerateEmbeddings ==
    /\ pc = "embed"
    /\ \/ /\ events' = Append(events, "embed")
          /\ all_embeddings' =
                generate_embeddings([i \in 1..Len(df) |-> df[i]["combined_text"]], width)
          /\ pc' = Advance("embed", df)
          /\ UNCHANGED <<exc, failed_stage>>
       \/ \E e \in EmbedErrors :
            /\ events' = Append(events, "embed failed")
            /\ Raise(e, "embed")
            /\ UNCHANGED all_embeddings
    /\ UNCHANGED <<csv, df, width, connection, idx, outcome, printed, before,
                   last_failure, storeVars, rowVars, uiVars, readerVars, twoRunVars>>

\* An INSERT that the store refuses or that fails on the way.
InsertFails(e) ==
    /\ events' = Append(events, "INSERT failed")
    /\ Raise(e, "insert")
    /\ ExecuteFails(e)
    /\ UNCHANGED idx

\* One round of the loop: prepare the row's values and INSERT them.
InsertRow ==
    /\ pc = "insert"
    /\ idx < Len(df)
    /\ LET r == df[idx + 1]
           embedding == all_embeddings[idx + 1]
           ingredients == get_ingredents_list(r)
           recipe == create_recipe_text(r)
       IN  IF ingredients.raised \/ recipe.raised
           THEN /\ Raise(RowFailure, "insert")
                /\ UNCHANGED <<events, storeVars, connection, idx>>
           ELSE IF ~StoreAcceptsVector(embedding)
           THEN InsertFails(WidthMismatch)
           ELSE \/ /\ events' = Append(events, "INSERT")
                   /\ Execute(Append(Visible,
                                     StoredRow(r, ingredients.val, recipe.val, embedding)))
                   /\ idx' = idx + 1
                   /\ pc' = IF idx + 1 = Len(df) THEN StepAfter("insert") ELSE "insert"
                   /\ UNCHANGED <<exc, failed_stage, connection>>
                \/ \E e \in InsertErrors : InsertFails(e)
    /\ UNCHANGED <<csv, df, width, all_embeddings, outcome, printed, before,
                   last_failure, rowVars, uiVars, readerVars, twoRunVars>>

\* connection.commit(); cursor.close(); connection.close(); print(...)
Commit ==
    /\ pc = "commit"
    /\ events' = Append(events, "COMMIT")
    /\ committed' = Visible
    /\ txn' = <<>>
    /\ txn_state' = "committed"
    /\ connection' = "closed"
    /\ printed' = SuccessReport(Len(df))
    /\ outcome' = "returned"
    /\ pc' = "done"
    /\ UNCHANGED <<csv, df, width, all_embeddings, idx, exc, failed_stage, before,
                   last_failure, rowVars, uiVars, readerVars, twoRunVars>>

\* The except branch: print the error; 'connection' is among the locals once
\* get_connection has returned, so connection.rollback() and
\* connection.close() are called.  On None, and on a connection that is lost,
\* rollback() raises and the exception leaves store_cocktails.
HandleException ==
    /\ pc = "except"
    /\ printed' = ErrorReport(exc)
    /\ pc' = "done"
    /\ IF connection = "open"
       THEN /\ events' = Append(events, "ROLLBACK")
            /\ txn' = <<>>
            /\ txn_state' = "rolled back"
            /\ connection' = "closed"
            /\ outcome' = "returned"
       ELSE /\ outcome' = "raised"
            /\ UNCHANGED <<events, txn, txn_state, connection>>
    /\ UNCHANGED <<csv, df, width, all_embeddings, idx, exc, failed_stage, before,
                   last_failure, committed, rowVars, uiVars, readerVars, twoRunVars>>

Next ==
    \/ StartRun
    \/ ReturnToCaller
    \/ LoadData
    \/ CleanData
    \/ GetConnection
    \/ ClearTable
    \/ GenerateEmbeddings
    \/ InsertRow
    \/ Commit
    \/ HandleException

Spec == Init /\ [][Next]_vars

(***************************************************************************)
(* A reader: the page's recommender holds a connection of its own and      *)
(* queries the table at any moment of a call of store_cocktails.  The      *)
(* server shows a statement the rows committed when the statement begins   *)
(* (READ COMMITTED, the level of a connection made by psycopg2.connect     *)
(* with no other setting).                                                 *)
(***************************************************************************)

\* A reader that sees the rows of transactions still open.
ReadUncommitted == Visible

\* The rows a statement of another connection sees.
ReadCommitted == committed

\* A query of the reader while store_cocktails is under way, its connection
\* made; `inflight` keeps the rows the call's own statements saw at that
\* moment.
Query ==
    /\ pc \in {"clear", "embed", "insert", "commit", "except"}
    /\ seen' = [asked |-> TRUE, rows |-> ReadCommitted, inflight |-> Visible]
    /\ UNCHANGED <<rowVars, storeVars, runVars, uiVars, twoRunVars>>

QueryNext ==
    \/ Next
    \/ Query

SpecQuery == Init /\ [][QueryNext]_vars

(***************************************************************************)
(* Two calls of store_cocktails at once, say from two processes started    *)
(* on two CSV files.  Each has its own connection, hence its own           *)
(* transaction, begun by its DELETE and ended by its commit() or its       *)
(* rollback().  The server runs them at READ COMMITTED: a statement works  *)
(* on the rows committed when it begins; a DELETE that meets a row another *)
(* open transaction has deleted waits for that transaction to end, then    *)
(* deletes the row if it is still there; rows committed after the DELETE   *)
(* began are not among its rows.  Rows are told apart by their id.         *)
(***************************************************************************)
Runs == {"A", "B"}

\* The names of the rows of a cleaned frame, in order.
FrameNames(frame) ==
    [k \in 1..Len(frame) |-> RowGetOrEmpty(frame[k], NameCol(frame[k]))]

\* The frames store_cocktails is called with: clean_data raises on an empty
\* one, so none is empty.
Frames == {FrameNames(clean_data(c)) : c \in Corpora \ {<<>>}}

\* The table before the calls: empty, or the rows of an earlier corpus.
EarlierRows == <<[id |-> <<"earlier", 1>>, name |-> "Negroni"]>>

Ids(rows) == {rows[k].id : k \in 1..Len(rows)}

\* store_cocktails about to run on a frame.
NewSession(frame) ==
    [pc |-> "connect", frame |-> frame, idx |-> 0,
     snapshot |-> {}, deleted |-> {}, inserted |-> <<>>]

TwoRunsInit ==
    /\ RowIdle
    /\ IngestIdle
    /\ cocktails \in {<<>>, EarlierRows}
    /\ sess \in [Runs -> {NewSession(f) : f \in Frames}]
    /\ finished = <<>>
    /\ overlapped = FALSE

\* The transaction of call s is open.
InTransaction(s) == sess[s].pc \in {"clearing", "embed", "insert", "commit"}

\* connection = self.db_setup.get_connection(); cursor = connection.cursor()
OpenSession(s) ==
    /\ sess[s].pc = "connect"
    /\ sess' = [sess EXCEPT ![s].pc = "clear"]
    /\ UNCHANGED <<cocktails, finished, overlapped>>
    /\ UNCHANGED <<rowVars, storeVars, runVars, uiVars, readerVars>>

\* cursor.execute("DELETE FROM cocktails") begins: the transaction opens and
\* the statement takes the committed rows as its rows.
BeginDelete(s) ==
    /\ sess[s].pc = "clear"
    /\ sess' = [sess EXCEPT ![s].pc = "clearing",
                            ![s].snapshot = Ids(cocktails)]
    /\ overlapped' = (overlapped \/ \E o \in Runs \ {s} : InTransaction(o))
    /\ UNCHANGED <<cocktails, finished>>
    /\ UNCHANGED <<rowVars, storeVars, runVars, uiVars, readerVars>>

\* A DELETE that takes as its rows all that are committed when it ends.
DeleteTargetsLatest(s) == Ids(cocktails)

\* The rows the DELETE of call s deletes: those of its rows still there.
DeleteTargets(s) == sess[s].snapshot \cap Ids(cocktails)

\* The DELETE returns, once no row of its rows is held by the other call.
FinishDelete(s) ==
    /\ sess[s].pc = "clearing"
    /\ \A o \in Runs \ {s} : sess[o].deleted \cap sess[s].snapshot = {}
    /\ sess' = [sess EXCEPT ![s].pc = "embed",
                            ![s].deleted = DeleteTargets(s)]
    /\ UNCHANGED <<cocktails, finished, overlapped>>
    /\ UNCHANGED <<rowVars, storeVars, runVars, uiVars, readerVars>>

\* all_embeddings = self.generate_embeddings(...)
SessionEmbed(s) ==
    /\ sess[s].pc = "embed"
    /\ sess' = [sess EXCEPT ![s].pc = "insert"]
    /\ UNCHANGED <<cocktails, finished, overlapped>>
    /\ UNCHANGED <<rowVars, storeVars, runVars, uiVars, readerVars>>

\* One round of the loop: the INSERT of the next row of the frame.
SessionInsert(s) ==
    /\ sess[s].pc = "insert"
    /\ LET k == sess[s].idx + 1 IN
       sess' = [sess EXCEPT
                  ![s].inserted = Append(@, [id |-> <<s, k>>,
                                             name |-> sess[s].frame[k]]),
                  ![s].idx = k,
                  ![s].pc = IF k = Len(sess[s].frame) THEN "commit" ELSE "insert"]
    /\ UNCHANGED <<cocktails, finished, overlapped>>
    /\ UNCHANGED <<rowVars, storeVars, runVars, uiVars, readerVars>>

\* connection.commit(): the deletions and the insertions become the table's.
SessionCommit(s) ==
    /\ sess[s].pc = "commit"
    /\ LET Stays(r) == r.id \notin sess[s].deleted IN
       cocktails' = SelectSeq(cocktails, Stays) \o sess[s].inserted
    /\ sess' = [sess EXCEPT ![s].pc = "done", ![s].deleted = {},
                            ![s].inserted = <<>>]
    /\ finished' = Append(finished, [run |-> s, how |-> "committed"])
    /\ UNCHANGED overlapped
    /\ UNCHANGED <<rowVars, storeVars, runVars, uiVars, readerVars>>

\* The Embedder or an INSERT raises: the except branch rolls back.
SessionRollback(s) ==
    /\ sess[s].pc \in {"embed", "insert"}
    /\ sess' = [sess EXCEPT ![s].pc = "done", ![s].deleted = {},
                            ![s].inserted = <<>>]
    /\ finished' = Append(finished, [run |-> s, how |-> "rolled back"])
    /\ UNCHANGED <<cocktails, overlapped>>
    /\ UNCHANGED <<rowVars, storeVars, runVars, uiVars, readerVars>>

TwoRunsNext ==
    \/ \E s \in Runs : OpenSession(s)
    \/ \E s \in Runs : BeginDelete(s)
    \/ \E s \in Runs : FinishDelete(s)
    \/ \E s \in Runs : SessionEmbed(s)
    \/ \E s \in Runs : SessionInsert(s)
    \/ \E s \in Runs : SessionCommit(s)
    \/ \E s \in Runs : SessionRollback(s)

SpecTwoRuns == TwoRunsInit /\ [][TwoRunsNext]_vars

(***************************************************************************)
(* app.py: the Streamlit page.  Streamlit runs the script, main(), from    *)
(* top to bottom once when the page opens and once more after every        *)
(* change of a widget and every press of a button; a button reads True     *)
(* only in the run its press caused, a widget a run does not render loses  *)
(* its value, and st.session_state lives across the runs.  One script run  *)
(* is one step of the model.  The recommender (recommender.py) is not part *)
(* of the source tree: what its searches return is taken from the          *)
(* specification's Retrieval Engine.                                       *)
(***************************************************************************)

\* The options of the sidebar's selectbox, without their glyphs; the first
\* is the one a new page shows.
ByIngredients == "By Ingredients"

ByStyle == "By Style/Mood"

ByOccasion == "By Occasion"

MixedPreferences == "Mixed Preferences"

ByCategory == "By Category"

RandomDiscovery == "Random Discovery"

ByName == "Search by Name"

SearchTypes == <<ByIngredients, ByStyle, ByOccasion, MixedPreferences,
                 ByCategory, RandomDiscovery, ByName>>

\* Every type counted among those whose results carry a score.
similarity_types_all ==
    {"By Ingredients", "By Style/Mood", "By Occasion", "Mixed Preferences",
     "By Category", "Random Discovery", "Search by Name"}

\* The types whose results carry a score (similarity_types of main).
similarity_types == {ByIngredients, ByStyle, ByOccasion, MixedPreferences}

\* limit=10 of the ingredient, style, occasion, mixed and category searches.
SearchLimit == 10

\* limit=6 of the random search.
RandomLimit == 6

\* bool(v) of a string or a list.
NonEmpty(v) == Len(v) > 0

\* any([...])
any(vs) == \E i \in 1..Len(vs) : NonEmpty(vs[i])

\* v or None
OrNone(v) == IF NonEmpty(v) THEN v ELSE PyNone

\* str.split(','), scanning from position i with `cur` the piece so far.
RECURSIVE SplitFrom(_, _, _)
SplitFrom(s, i, cur) ==
    IF i > Len(s) THEN <<cur>>
    ELSE IF CharAt(s, i) = "," THEN <<cur>> \o SplitFrom(s, i + 1, "")
    ELSE SplitFrom(s, i + 1, cur \o CharAt(s, i))

SplitCommas(s) == SplitFrom(s, 1, "")

\* [ing.strip() for ing in pieces if ing.strip()]
RECURSIVE StrippedNonBlank(_)
StrippedNonBlank(pieces) ==
    IF pieces = <<>> THEN <<>>
    ELSE (IF Strip(Head(pieces)) # "" THEN <<Strip(Head(pieces))>> ELSE <<>>)
         \o StrippedNonBlank(Tail(pieces))

\* The rows a search returned, each remembering the recommender method that
\* produced it (a history field: the page never reads it).
ProducedBy(method, found) ==
    [i \in 1..Len(found) |->
        [name |-> found[i].name, similarity |-> found[i].similarity,
         by |-> method]]

\* What one handler did in one run: the buttons it rendered, the searches
\* it made and what it returned.
Searched(call, found, keys) ==
    [buttons |-> keys, calls |-> <<call>>,
     results |-> ProducedBy(call.method, found)]

NotSearched(keys) == [buttons |-> keys, calls |-> <<>>, results |-> <<>>]

\* st.button(..., key=key) in a run caused by a press of `pressed`.
Button(key, pressed) == pressed = key

\* handle_name_search
handle_name_search(w, found) ==
    IF NonEmpty(w.cocktail_name)
    THEN Searched([method |-> "get_cocktail_by_name", name |-> w.cocktail_name],
                  found, {})
    ELSE NotSearched({})

\* all_ingredients of handle_ingredients_search
all_ingredients(w) ==
    w.selected_common
    \o (IF NonEmpty(w.custom_ingredients)
        THEN StrippedNonBlank(SplitCommas(w.custom_ingredients))
        ELSE <<>>)

\* handle_ingredients_search
handle_ingredients_search(w, pressed, found) ==
    IF NonEmpty(all_ingredients(w))
    THEN IF Button("ingredients_search", pressed)
         THEN Searched([method |-> "recommend_by_ingredients",
                        ingredients |-> all_ingredients(w),
                        limit |-> SearchLimit],
                       found, {"ingredients_search"})
         ELSE NotSearched({"ingredients_search"})
    ELSE NotSearched({})

\* handle_style_search
handle_style_search(w, pressed, found) ==
    IF NonEmpty(w.selected_styles)
    THEN IF Button("style_search", pressed)
         THEN Searched([method |-> "recommend_by_style",
                        style |-> w.selected_styles,
                        limit |-> SearchLimit],
                       found, {"style_search"})
         ELSE NotSearched({"style_search"})
    ELSE NotSearched({})

\* handle_occasion_search
handle_occasion_search(w, pressed, found) ==
    IF NonEmpty(w.occasion)
    THEN IF Button("occasion_search", pressed)
         THEN Searched([method |-> "recommend_by_occasion",
                        occasion |-> w.occasion,
                        limit |-> SearchLimit],
                       found, {"occasion_search"})
         ELSE NotSearched({"occasion_search"})
    ELSE NotSearched({})

\* A gate that lets every form through.
MixedFormAlwaysPopulated(w) == TRUE

\* any([ingredients, styles, occasion, alcoholic_pref]) of handle_mixed_search
MixedFormPopulated(w) ==
    any(<<w.ingredients, w.styles, w.occasion, w.alcoholic_pref>>)

\* The call handle_mixed_search makes.
MixedCall(w) ==
    [method |-> "recommend_by_mixed_preferences",
     ingredients |-> OrNone(w.ingredients),
     style |-> OrNone(w.styles),
     occasion |-> OrNone(w.occasion),
     alcoholic_preference |-> OrNone(w.alcoholic_pref),
     limit |-> SearchLimit]

\* handle_mixed_search
handle_mixed_search(w, pressed, found) ==
    IF MixedFormPopulated(w)
    THEN IF Button("mixed_search", pressed)
         THEN Searched(MixedCall(w), found, {"mixed_search"})
         ELSE NotSearched({"mixed_search"})
    ELSE NotSearched({})

\* handle_category_search
handle_category_search(w, found) ==
    IF NonEmpty(w.category)
    THEN Searched([method |-> "get_cocktails_by_category",
                   category |-> w.category,
                   limit |-> SearchLimit],
                  found, {})
    ELSE NotSearched({})

\* handle_random_search
handle_random_search(pressed, found) ==
    IF Button("random_search", pressed)
    THEN Searched([method |-> "get_random_cocktails", limit |-> RandomLimit],
                  found, {"random_search"})
    ELSE NotSearched({"random_search"})

\* The if/elif chain of main that picks the handler.
Dispatch(t, w, pressed, found) ==
    CASE t = ByIngredients -> handle_ingredients_search(w, pressed, found)
      [] t = ByStyle -> handle_style_search(w, pressed, found)
      [] t = ByOccasion -> handle_occasion_search(w, pressed, found)
      [] t = MixedPreferences -> handle_mixed_search(w, pressed, found)
      [] t = ByCategory -> handle_category_search(w, found)
      [] t = RandomDiscovery -> handle_random_search(pressed, found)
      [] t = ByName -> handle_name_search(w, found)
      [] OTHER -> NotSearched({})

\* A similarity is the real number num/den, held as <<num, den>>; None, the
\* similarity of a result that has none, is held as <<>>.
NoSimilarity == <<>>

\* sim_percent of display_cocktail.
SimPercent(sim) ==
    IF sim[1] <= sim[2] THEN (sim[1] * 100) \div sim[2] ELSE sim[1] \div sim[2]

\* recommender.format_cocktail_result: the result as a dict.
format_cocktail_result(result) ==
    [name |-> result.name, similarity |-> result.similarity]

\* display_cocktail: the card of one cocktail, with the Match badge or none.
display_cocktail(cocktail) ==
    [of |-> cocktail.name,
     sim_html |-> IF cocktail.similarity # NoSimilarity
                  THEN "Match: " \o ToString(SimPercent(cocktail.similarity)) \o "%"
                  ELSE ""]

\* What the recommender's searches can return: ranked matches with their
\* similarity for the vector searches; for the lookups, whose similarity is
\* not computed, rows whose similarity entry is None or a number put there
\* in its place; zero matches is the empty sequence.
Match(name, sim) == [name |-> name, similarity |-> sim]

VectorMatches ==
    {<<>>,
     <<Match("Margarita", <<1, 1>>)>>,
     <<Match("Margarita", <<3, 4>>), Match("Mojito", <<1, 2>>)>>}

LookupMatches ==
    {<<>>,
     <<Match("Margarita", NoSimilarity)>>,
     <<Match("Mojito", NoSimilarity), Match("Margarita", NoSimilarity)>>,
     <<Match("Margarita", <<0, 1>>)>>,
     <<Match("Mojito", <<1, 1>>), Match("Margarita", NoSimilarity)>>}

Found(t) == IF t \in similarity_types THEN VectorMatches ELSE LookupMatches

\* st.session_state of a session in which no run has happened.
NoSessionState == [k \in {} |-> k]

\* The two `not in st.session_state` initialisations of main.
InitSession(ss) ==
    [search_results |-> IF "search_results" \in DOMAIN ss
                        THEN ss.search_results ELSE <<>>,
     last_search_type |-> IF "last_search_type" \in DOMAIN ss
                          THEN ss.last_search_type ELSE ""]

\* A run that puts whatever the handler returned into the session state,
\* an empty list included.
StoreResultsAlways(kept, found) == [kept EXCEPT !.search_results = found]

\* `if results: st.session_state.search_results = results`.
StoreResults(kept, found) ==
    IF NonEmpty(found) THEN [kept EXCEPT !.search_results = found] ELSE kept

\* main() from the column of the search on, with the recommender at hand:
\* the session state it leaves and what it put on the page.
main(ss, t, w, pressed, found) ==
    LET kept == IF InitSession(ss).last_search_type # t
                THEN [search_results |-> <<>>, last_search_type |-> t]
                ELSE InitSession(ss)
        h == Dispatch(t, w, pressed, found)
        stored == StoreResults(kept, h.results)
        show_similarity == stored.last_search_type \in similarity_types
        Card(result) ==
            display_cocktail(IF show_similarity
                             THEN format_cocktail_result(result)
                             ELSE [format_cocktail_result(result)
                                     EXCEPT !.similarity = NoSimilarity])
    IN [session_state |-> stored,
        buttons |-> h.buttons,
        calls |-> h.calls,
        results |-> h.results,
        cards |-> [i \in 1..Len(stored.search_results) |->
                      Card(stored.search_results[i])],
        notice |-> /\ ~NonEmpty(stored.search_results)
                   /\ NonEmpty(stored.last_search_type)
                   /\ stored.last_search_type # ByName]

\* The widgets of each page with the values they start with.
NoWidgets == [k \in {} |-> k]

DefaultWidgets(t) ==
    CASE t = ByIngredients -> [selected_common |-> <<>>, custom_ingredients |-> ""]
      [] t = ByStyle -> [selected_styles |-> <<>>]
      [] t = ByOccasion -> [occasion |-> ""]
      [] t = MixedPreferences -> [ingredients |-> <<>>, styles |-> <<>>,
                                  occasion |-> "", alcoholic_pref |-> ""]
      [] t = ByCategory -> [category |-> ""]
      [] t = ByName -> [cocktail_name |-> ""]
      [] OTHER -> NoWidgets

\* The values the user gives the widgets of each page.
WidgetValues(t) ==
    CASE t = ByIngredients -> [selected_common : {<<>>, <<"gin">>},
                               custom_ingredients : {"", "lime, mint", " , "}]
      [] t = ByStyle -> [selected_styles : {<<>>, <<"sweet">>, <<"sweet", "sour">>}]
      [] t = ByOccasion -> [occasion : {"", "party"}]
      [] t = MixedPreferences -> [ingredients : {<<>>, <<"gin">>},
                                  styles : {<<>>, <<"sweet">>},
                                  occasion : {"", "party"},
                                  alcoholic_pref : {"", "Alcoholic"}]
      [] t = ByCategory -> [category : {"", "Cocktail"}]
      [] t = ByName -> [cocktail_name : {"", "Margarita"}]
      [] OTHER -> {NoWidgets}

\* One script run with the recommender at hand, for the sidebar choice t,
\* the widget values w and the pressed button, if any.
Run(t, w, pressed) ==
    \E found \in Found(t) :
        LET m == main(session_state, t, w, pressed, found)
        IN /\ search_type' = t
           /\ widgets' = w
           /\ session_state' = m.session_state
           /\ buttons' = m.buttons
           /\ calls' = m.calls
           /\ results' = m.results
           /\ cards' = m.cards
           /\ notice' = m.notice
           /\ UNCHANGED <<rowVars, storeVars, runVars, readerVars, twoRunVars>>

\* The user changes one widget of the page at hand, of type t.
Edit(t) ==
    \E w \in WidgetValues(t) :
        /\ Cardinality({f \in DOMAIN w : w[f] # widgets[f]}) = 1
        /\ Run(t, w, "")

\* The user presses a button the latest run rendered.
Press(key) ==
    /\ key \in buttons
    /\ Run(search_type, widgets, key)

\* The first run of a session.
OpenPage ==
    /\ search_type = ""
    /\ Run(SearchTypes[1], DefaultWidgets(SearchTypes[1]), "")

\* The first run when get_recommender raises: main reports the error and
\* returns after the session state is initialised; nothing else is rendered.
OpenPageFails ==
    /\ search_type = ""
    /\ session_state' = InitSession(session_state)
    /\ UNCHANGED <<search_type, widgets, buttons, calls, results, cards, notice>>
    /\ UNCHANGED <<rowVars, storeVars, runVars, readerVars, twoRunVars>>

\* The user picks another option in the sidebar; the widgets of the page
\* left are gone and those of the new page start afresh.
SelectSearchType ==
    /\ search_type # ""
    /\ \E i \in 1..Len(SearchTypes) :
          /\ SearchTypes[i] # search_type
          /\ Run(SearchTypes[i], DefaultWidgets(SearchTypes[i]), "")

EditIngredientsForm ==
    /\ search_type = ByIngredients
    /\ Edit(ByIngredients)

PressIngredientsSearch ==
    /\ search_type = ByIngredients
    /\ Press("ingredients_search")

EditStyleForm ==
    /\ search_type = ByStyle
    /\ Edit(ByStyle)

PressStyleSearch ==
    /\ search_type = ByStyle
    /\ Press("style_search")

EditOccasionForm ==
    /\ search_type = ByOccasion
    /\ Edit(ByOccasion)

PressOccasionSearch ==
    /\ search_type = ByOccasion
    /\ Press("occasion_search")

EditMixedForm ==
    /\ search_type = MixedPreferences
    /\ Edit(MixedPreferences)

PressMixedSearch ==
    /\ search_type = MixedPreferences
    /\ Press("mixed_search")

ChooseCategory ==
    /\ search_type = ByCategory
    /\ Edit(ByCategory)

PressRandomSearch ==
    /\ search_type = RandomDiscovery
    /\ Press("random_search")

TypeName ==
    /\ search_type = ByName
    /\ Edit(ByName)

UINext ==
    \/ OpenPage
    \/ OpenPageFails
    \/ SelectSearchType
    \/ EditIngredientsForm
    \/ PressIngredientsSearch
    \/ EditStyleForm
    \/ PressStyleSearch
    \/ EditOccasionForm
    \/ PressOccasionSearch
    \/ EditMixedForm
    \/ PressMixedSearch
    \/ ChooseCategory
    \/ PressRandomSearch
    \/ TypeName

SpecUI == Init /\ [][UINext]_vars



(***************************************************************************)
(* What the claims about rows speak of.                                    *)
(***************************************************************************)
RowNormalized == rstep \in {"normalized", "rendered", "inserted"}
RowRendered == rstep \in {"rendered", "inserted"}

\* The text of a recipe after its "Ingredients:" heading.
RECURSIVE AfterHeadingFrom(_, _)
AfterHeadingFrom(text, i) ==
    IF i + 12 > Len(text) THEN ""
    ELSE IF SubSeq(text, i, i + 12) = "Ingredients:\n"
         THEN SubSeq(text, i + 13, Len(text))
         ELSE AfterHeadingFrom(text, i + 1)

IngredientSection(text) == AfterHeadingFrom(text, 1)

\* A list field that starts with the list delimiter and is no parsable literal.
Unparsable(r, col) ==
    /\ HasCol(r, col)
    /\ StartsWithBracket(r[col])
    /\ ~literal_eval(r[col]).ok

\* A row read as a new-shape row: it has a non-empty ingredients cell.
IsNewShape(r) == HasCol(r, "ingredients") /\ r["ingredients"] # ""

\* The missing-value token of a row's shape.
Sentinel(r) == IF IsNewShape(r) THEN "None" ELSE "nan"

\* A value that is there: not None, not empty, not whitespace-only and not
\* the missing-value token.
Present(v, sentinel) ==
    v # PyNone /\ Strip(v) # "" /\ Strip(v) # sentinel

\* A field as the sequence it denotes: the literal's elements, or the field
\* itself as the only element.
Denoted(field) ==
    IF StartsWithBracket(field) /\ literal_eval(field).ok
    THEN literal_eval(field).val
    ELSE <<field>>

\* The ingredients of a row in source order, kept or not.
SourceIngredients(r) ==
    IF IsNewShape(r) THEN Denoted(r["ingredients"])
    ELSE [i \in 1..NumSlots |-> RowGet(r, IngredientCol(i))]

\* The measures of a row, position by position.
SourceMeasures(r) ==
    IF IsNewShape(r)
    THEN IF HasCol(r, "ingredientMeasures") /\ r["ingredientMeasures"] # ""
         THEN Denoted(r["ingredientMeasures"])
         ELSE <<>>
    ELSE [i \in 1..NumSlots |-> RowGet(r, MeasureCol(i))]

\* a is b with some entries left out.
RECURSIVE IsSubsequence(_, _)
IsSubsequence(a, b) ==
    IF a = <<>> THEN TRUE
    ELSE IF b = <<>> THEN FALSE
    ELSE IF Head(a) = Head(b) THEN IsSubsequence(Tail(a), Tail(b))
    ELSE IsSubsequence(a, Tail(b))

\* The ingredient lines a recipe has when every present ingredient gets one
\* line, with its measure exactly when the measure at its position is present.
RECURSIVE ExpectedLines(_, _, _, _)
ExpectedLines(ings, meas, sentinel, i) ==
    IF i > Len(ings) THEN ""
    ELSE (IF Present(ings[i], sentinel)
          THEN IF i <= Len(meas) /\ Present(meas[i], sentinel)
               THEN "- " \o meas[i] \o " " \o ings[i] \o "\n"
               ELSE "- " \o ings[i] \o "\n"
          ELSE "")
         \o ExpectedLines(ings, meas, sentinel, i + 1)

\* C7: for every row of either shape whose list fields parse, the recipe's
\* ingredient section is one line per kept ingredient in source order, the
\* line carrying the measure exactly when a measure exists at the ingredient's
\* position and is not empty, not whitespace-only and not the missing-value
\* token.
C7_RecipeLines ==
    (RowRendered /\ ~Unparsable(row, "ingredients")
                 /\ ~Unparsable(row, "ingredientMeasures"))
    => IngredientSection(recipe_out)
         = ExpectedLines(SourceIngredients(row), SourceMeasures(row), Sentinel(row), 1)

\* C8: the ingredient sequence of a row has at most 15 entries for a legacy
\* row and at most as many as the list literal for a new-shape row, keeps
\* source order and holds no blank, whitespace-only or missing-value entry.
C8_IngredientsBounded ==
    RowNormalized
    => /\ Len(ingredients_out) <= Len(SourceIngredients(row))
       /\ ~IsNewShape(row) => Len(ingredients_out) <= 15
       /\ IsSubsequence(ingredients_out, StripAll(SourceIngredients(row)))
       /\ \A i \in 1..Len(ingredients_out) :
              Present(ingredients_out[i], Sentinel(row))

\* C9 as stated: a row whose ingredients or ingredientMeasures field starts
\* with the list delimiter and does not parse is not failed: its ingredient
\* sequence is the trimmed raw ingredients field alone, its recipe has that
\* one ingredient line, and no exception leaves either call.
C9_MalformedIsOneIngredient ==
    (Unparsable(row, "ingredients") \/ Unparsable(row, "ingredientMeasures"))
    => /\ rstep # "raised"
       /\ RowNormalized => ingredients_out = <<Strip(row["ingredients"])>>
       /\ RowRendered =>
              IngredientSection(recipe_out) = "- " \o row["ingredients"] \o "\n"
       /\ rstep = "inserted" =>
              insert_args.ingredients = Strip(row["ingredients"])

\* The entries present in a sequence, trimmed.
RECURSIVE PresentTrimmed(_, _)
PresentTrimmed(seq, sentinel) ==
    IF seq = <<>> THEN <<>>
    ELSE (IF Present(Head(seq), sentinel) THEN <<Strip(Head(seq))>> ELSE <<>>)
         \o PresentTrimmed(Tail(seq), sentinel)

\* C9 as amended: such a row is not failed and no exception leaves either
\* call; its recipe has the single line holding the raw ingredients field;
\* its ingredient sequence is the trimmed raw ingredients field alone when
\* the ingredients field is the unparsable one, and the ingredients the
\* field denotes, as for any row, when only ingredientMeasures is unparsable.
C9_MalformedRecovered ==
    (Unparsable(row, "ingredients") \/ Unparsable(row, "ingredientMeasures"))
    => /\ rstep # "raised"
       /\ RowNormalized =>
              ingredients_out =
                  IF Unparsable(row, "ingredients")
                  THEN <<Strip(row["ingredients"])>>
                  ELSE IF StartsWithBracket(row["ingredients"])
                       THEN PresentTrimmed(SourceIngredients(row), "None")
                       ELSE PresentTrimmed(SourceIngredients(row), "")
       /\ (RowRendered /\ IsNewShape(row)) =>
              IngredientSection(recipe_out) = "- " \o row["ingredients"] \o "\n"
       /\ rstep = "inserted" =>
              insert_args.ingredients = Join(ingredients_out, ", ")

\* A row with an unparsable ingredients field has reached the INSERT.
C9_Witness ==
    /\ rstep = "inserted"
    /\ Unparsable(row, "ingredients")
    /\ insert_args.ingredients = row["ingredients"]

(***************************************************************************)
(* What the claims about ingestion speak of.                               *)
(***************************************************************************)
Issued(e) == \E i \in 1..Len(events) : events[i] = e

CountIssued(e) == Cardinality({i \in 1..Len(events) : events[i] = e})

\* Every call e of the run comes after some call among `earlier`.
Preceded(e, earlier) ==
    \A i \in 1..Len(events) :
        events[i] = e => \E j \in 1..(i - 1) : events[j] \in earlier

NameOf(r) == r[NameCol(r)]

NamesOf(rows) == {NameOf(rows[i]) : i \in 1..Len(rows)}

\* The first row of a corpus that bears a name.
FirstNamed(rows, n) ==
    rows[CHOOSE i \in 1..Len(rows) :
            /\ NameOf(rows[i]) = n
            /\ \A j \in 1..(i - 1) : NameOf(rows[j]) # n]

\* C1: once an INSERT of a call has failed, no further row is inserted, the
\* transaction does not survive the call (it is rolled back), and the
\* committed rows are those of before the call: never none of them, never a
\* part of the new corpus.
C1_InsertFailureKeepsCorpus ==
    failed_stage = "insert"
    => /\ committed = before
       /\ \A i \in 1..Len(events) :
              events[i] = "INSERT failed" =>
                  \A j \in (i + 1)..Len(events) : events[j] = "ROLLBACK"
       /\ ~Issued("COMMIT")
       /\ pc = "done" => txn_state \in {"rolled back", "aborted"}

\* A call failed at its second INSERT, after the DELETE and one INSERT, over
\* a store that held rows.
C1_Witness ==
    /\ pc = "done"
    /\ failed_stage = "insert"
    /\ idx = 1
    /\ Issued("DELETE")
    /\ Issued("INSERT")
    /\ before # <<>>
    /\ committed = before

\* C2: after a successful call the table holds exactly one row per distinct
\* name of the call's corpus, that of the name's first occurrence, in the
\* order of first occurrence, and no row of an earlier call.
C2_TableIsLastCorpus ==
    (pc = "done" /\ failed_stage = "none")
    => /\ Len(committed) = Cardinality(NamesOf(csv))
       /\ {committed[k].name : k \in 1..Len(committed)} = NamesOf(csv)
       /\ \A k \in 1..Len(committed) :
              LET first == FirstNamed(csv, committed[k].name) IN
              /\ committed[k].ingredients = Join(IngredientsOf(first).val, ", ")
              /\ committed[k].category = first[CategoryCol(first)]
              /\ \A j \in 1..(k - 1) :
                     \E a, b \in 1..Len(csv) :
                         /\ a < b
                         /\ NameOf(csv[a]) = committed[j].name
                         /\ NameOf(csv[b]) = committed[k].name

\* A successful call whose corpus repeats a name, over a store that held
\* rows of other names only.
C2_Witness ==
    /\ pc = "done"
    /\ failed_stage = "none"
    /\ Len(csv) > Len(committed)
    /\ before # <<>>
    /\ \A k \in 1..Len(before) : before[k].name \notin NamesOf(csv)

\* C3 as stated: the calls of a run are ordered embed, clear, insert: the
\* DELETE is never issued before the Embedder has returned, and a run whose
\* embedding failed has issued no DELETE.
C3_EmbedThenClear ==
    /\ Preceded("DELETE", {"embed"})
    /\ Preceded("DELETE failed", {"embed"})
    /\ failed_stage = "embed" => ~Issued("DELETE")

\* C3 as amended: the calls of a run are ordered clear, embed, insert: the
\* Embedder is never called before the DELETE has been issued, no INSERT is
\* issued before the Embedder has returned, and a run whose embedding failed
\* has issued the DELETE inside its transaction, which is rolled back, so
\* that the committed rows stay those of before the call.
C3_ClearThenEmbed ==
    /\ Preceded("embed", {"DELETE"})
    /\ Preceded("embed failed", {"DELETE"})
    /\ Preceded("INSERT", {"embed"})
    /\ Preceded("INSERT failed", {"embed"})
    /\ failed_stage = "embed"
       => /\ Issued("DELETE")
          /\ committed = before
          /\ pc = "done" => txn_state = "rolled back"

\* A run whose embedding failed has ended, over a store that held rows.
C3_Witness ==
    /\ pc = "done"
    /\ failed_stage = "embed"
    /\ events = <<"connect", "DELETE", "embed failed", "ROLLBACK">>
    /\ before # <<>>

\* C4: a call that failed to connect, to clear, to embed or to insert ends
\* otherwise than a successful call, which returns normally.
C4_FailureSurfaced ==
    (pc = "done" /\ failed_stage \in {"connect", "clear", "embed", "insert"})
    => outcome # "returned"

\* C5: the report of a failed clear, embed or insert differs from the report
\* of an earlier failure of another of these stages.
C5_ReportNamesStage ==
    (/\ pc = "done"
     /\ failed_stage \in {"clear", "embed", "insert"}
     /\ last_failure.stage \notin {"none", failed_stage})
    => printed # last_failure.report

\* C6 as stated: when the Embedder's vectors do not have the store's width,
\* no INSERT is issued.
C6_NoInsertOnMismatch ==
    width # EmbeddingWidth => ~Issued("INSERT") /\ ~Issued("INSERT failed")

\* C6 as amended: when the Embedder's vectors do not have the store's width,
\* the run aborts at its first INSERT: that INSERT is issued and the store
\* refuses it, no row is inserted, no second INSERT is issued and nothing is
\* committed.
C6_MismatchRefused ==
    width # EmbeddingWidth
    => /\ ~Issued("INSERT")
       /\ CountIssued("INSERT failed") <= 1
       /\ ~Issued("COMMIT")
       /\ committed = before
       /\ Visible \in {<<>>, before}
       /\ (pc = "done" /\ Issued("embed")) =>
              /\ failed_stage = "insert"
              /\ events = <<"connect", "DELETE", "embed", "INSERT failed", "ROLLBACK">>

\* A run with vectors of another width has ended at its first INSERT, over a
\* store that held rows.
C6_Witness ==
    /\ pc = "done"
    /\ width # EmbeddingWidth
    /\ exc = WidthMismatch
    /\ Issued("INSERT failed")
    /\ before # <<>>

(***************************************************************************)
(* The mixed-preferences form.                                             *)
(***************************************************************************)

\* The four inputs of the mixed form are all empty.
MixedFormEmpty ==
    /\ widgets.ingredients = <<>>
    /\ widgets.styles = <<>>
    /\ widgets.occasion = ""
    /\ widgets.alcoholic_pref = ""

\* C10: a script run calls recommend_by_mixed_preferences only on the mixed
\* page and only with at least one of ingredients, styles, occasion and
\* alcoholic preference non-empty, the call carrying exactly the populated
\* inputs; a run of the mixed page with all four empty makes no search,
\* renders no search button, and its handler returns the empty list.
C10_EmptyMixedFormNeverSearches ==
    /\ \A i \in 1..Len(calls) :
          calls[i].method = "recommend_by_mixed_preferences"
          => /\ search_type = MixedPreferences
             /\ ~MixedFormEmpty
             /\ calls[i].ingredients = OrNone(widgets.ingredients)
             /\ calls[i].style = OrNone(widgets.styles)
             /\ calls[i].occasion = OrNone(widgets.occasion)
             /\ calls[i].alcoholic_preference = OrNone(widgets.alcoholic_pref)
    /\ (search_type = MixedPreferences /\ MixedFormEmpty)
       => /\ calls = <<>>
          /\ results = <<>>
          /\ buttons = {}

\* After a mixed search that found cocktails the user has emptied the form:
\* the run made no search and returned nothing, the earlier results stay.
C10_Witness ==
    /\ search_type = MixedPreferences
    /\ MixedFormEmpty
    /\ session_state.search_results # <<>>
    /\ calls = <<>>
    /\ results = <<>>

(***************************************************************************)
(* The Match badge.                                                        *)
(***************************************************************************)

\* The recommender methods that rank by vector similarity.
VectorSearches ==
    {"recommend_by_ingredients", "recommend_by_style", "recommend_by_occasion",
     "recommend_by_mixed_preferences"}

\* C11: the cards of a script run are those of the stored results, in
\* order, and a card shows a Match badge only when its result was produced
\* by an ingredients, style, occasion or mixed search: the result of a name,
\* category or random lookup is never shown with a score, whatever its
\* similarity entry holds.
C11_ScoreOnlyOnVectorResults ==
    \A i \in 1..Len(cards) :
        /\ i <= Len(session_state.search_results)
        /\ cards[i].of = session_state.search_results[i].name
        /\ cards[i].sim_html # "" =>
               session_state.search_results[i].by \in VectorSearches

\* A lookup has returned a row whose similarity entry holds a number, and
\* the run has displayed its card without a badge.
C11_Witness ==
    /\ search_type \in {ByCategory, RandomDiscovery, ByName}
    /\ calls # <<>>
    /\ cards # <<>>
    /\ session_state.search_results[1].by \notin VectorSearches
    /\ session_state.search_results[1].similarity # NoSimilarity
    /\ cards[1].sim_html = ""

(***************************************************************************)
(* Readers during a call.                                                  *)
(***************************************************************************)

\* The table a successful call over the frame at hand leaves.
NewCorpus ==
    [k \in 1..Len(df) |->
        StoredRow(df[k],
                  get_ingredents_list(df[k]).val,
                  create_recipe_text(df[k]).val,
                  generate_embeddings(<<df[k]["combined_text"]>>, width)[1])]

\* Rows that are neither the whole earlier corpus nor the whole new one.
PartlyRepopulated(rows) == rows # before /\ rows # NewCorpus

\* C12 as stated: a query made at a moment of a call when the table, as the
\* call's statements have left it, is partly repopulated is shown a partly
\* repopulated table: neither the whole earlier corpus nor the whole new one.
C12_ReaderSeesPartialCorpus ==
    (seen.asked /\ PartlyRepopulated(seen.inflight))
    => PartlyRepopulated(seen.rows)

\* C12 as amended: a query made while a call is under way returns the whole
\* earlier corpus until the call commits and the whole new corpus from then
\* on, also when the call's own statements see a partly repopulated table;
\* and a call that does not commit never changes what the reader is shown.
C12_ReaderSeesWholeCorpus ==
    seen.asked
    => /\ ~PartlyRepopulated(seen.rows)
       /\ seen.rows = NewCorpus /\ seen.rows # before => Issued("COMMIT")
       /\ ~Issued("COMMIT") => seen.rows = before

\* The reader has queried between two INSERTs of a call over a store that
\* held rows: the call saw one row of its two, the reader the earlier corpus.
C12_Witness ==
    /\ seen.asked
    /\ Len(df) >= 2
    /\ Len(seen.inflight) = 1
    /\ seen.inflight # before
    /\ seen.inflight[1] = NewCorpus[1]
    /\ before # <<>>
    /\ seen.rows = before

(***************************************************************************)
(* Two calls at once.                                                      *)
(***************************************************************************)

BothCommitted ==
    /\ Len(finished) = 2
    /\ \A k \in 1..2 : finished[k].how = "committed"

\* The names of the committed rows call s inserted, in order.
RowsOf(s) ==
    LET ByCall(r) == r.id[1] = s
        rows == SelectSeq(cocktails, ByCall)
    IN  [k \in 1..Len(rows) |-> rows[k].name]

\* The table holds the rows of call s, all of them, and no other row.
ExactlyCorpusOf(s) ==
    /\ RowsOf(s) = sess[s].frame
    /\ Len(cocktails) = Len(sess[s].frame)

\* C13: when both calls have committed, the table holds exactly the corpus
\* of the call that committed last if and only if that call began its
\* transaction after the other had ended; when the two transactions
\* overlapped, the table holds the whole corpus of each, hence neither
\* exactly the one's rows nor exactly the other's.
C13_OnlySerializedRunsReplace ==
    BothCommitted
    => /\ ExactlyCorpusOf(finished[2].run) <=> ~overlapped
       /\ overlapped =>
              /\ \A s \in Runs : RowsOf(s) = sess[s].frame
              /\ Len(cocktails) = Len(sess["A"].frame) + Len(sess["B"].frame)
              /\ \A s \in Runs : ~ExactlyCorpusOf(s)

\* Over a table that held rows, B's DELETE began while A's transaction was
\* open; both have committed and the table holds rows of both.
C13_Witness ==
    /\ BothCommitted
    /\ overlapped
    /\ finished[1].run = "A"
    /\ RowsOf("A") # <<>>
    /\ RowsOf("B") # <<>>
    /\ Len(sess["A"].frame) = 2
    /\ \A k \in 1..Len(cocktails) : cocktails[k].id[1] # "earlier"

(***************************************************************************)
(* Rows and their vectors.                                                 *)
(***************************************************************************)

\* The labels drop_duplicates leaves: the positions, from 0, of the rows of
\* the CSV that bear the first occurrence of their name.
KeptLabels(rows) ==
    {i - 1 : i \in {j \in 1..Len(rows) :
                      \A h \in 1..(j - 1) : NameOf(rows[h]) # NameOf(rows[j])}}

\* The stored row was made from the row r of the cleaned frame and carries
\* the vector of r's own combined_text.
StoredFrom(stored, r) ==
    /\ stored.name = NameOf(r)
    /\ stored.ingredients = Join(IngredientsOf(r).val, ", ")
    /\ stored.embedding.of = r["combined_text"]
    /\ stored.embedding.of = combined_text(r)

\* C14: the k-th row a call has inserted is the k-th row of the cleaned
\* frame with the k-th vector of the batch, which is the vector of that
\* row's own combined_text, whatever labels the de-duplication left; and the
\* rows a successful call has committed are those rows with those vectors.
C14_RowCarriesOwnEmbedding ==
    /\ txn_state = "active" =>
           \A k \in 1..Len(txn) :
               /\ txn[k].embedding = all_embeddings[k]
               /\ StoredFrom(txn[k], df[k])
    /\ (pc = "done" /\ failed_stage = "none") =>
           /\ Len(committed) = Len(df)
           /\ \A k \in 1..Len(committed) :
                  /\ committed[k].embedding = all_embeddings[k]
                  /\ StoredFrom(committed[k], df[k])

\* A call over a CSV whose middle row was dropped as a duplicate, so that
\* the kept rows are labelled 0 and 2, has committed: the second stored row
\* is the third row of the CSV with the second vector of the batch.
C14_Witness ==
    /\ pc = "done"
    /\ failed_stage = "none"
    /\ csv = RepeatedNameCorpus
    /\ KeptLabels(csv) = {0, 2}
    /\ Len(committed) = 2
    /\ committed[2].name = NameOf(csv[3])
    /\ committed[2].embedding = all_embeddings[2]
    /\ committed[2].embedding.of = combined_text(csv[3])

(***************************************************************************)
(* The results the page keeps between runs.                                *)
(***************************************************************************)

\* st.session_state.search_results and .last_search_type, as a run finds
\* them after the two initialisations.
StoredResults(ss) == InitSession(ss).search_results
StoredType(ss) == InitSession(ss).last_search_type

\* The run that led to this state searched and got no match.
SearchedInVain == calls # <<>> /\ results = <<>>

\* C15: a step changes the stored results only by emptying them, when the
\* selected search type differs from the stored one, or by replacing them
\* with the non-empty result of the run's search; and a run of the stored
\* type whose search returns no match leaves the stored results as they
\* were, and when there were any they are all displayed again and the
\* "No cocktails found" notice is not shown.
C15_StoredResultsChangeTwoWays ==
    [][/\ StoredResults(session_state') # StoredResults(session_state) =>
              \/ /\ search_type' # StoredType(session_state)
                 /\ StoredResults(session_state') = <<>>
              \/ /\ NonEmpty(results')
                 /\ StoredResults(session_state') = results'
       /\ (SearchedInVain' /\ search_type' = StoredType(session_state)) =>
              /\ StoredResults(session_state') = StoredResults(session_state)
              /\ NonEmpty(StoredResults(session_state)) =>
                     /\ Len(cards') = Len(StoredResults(session_state))
                     /\ ~notice']_vars

\* A search of the stored type has returned no match while results of an
\* earlier search were stored: they are still stored and displayed, and the
\* notice is not shown.
C15_Witness ==
    /\ SearchedInVain
    /\ search_type = StoredType(session_state)
    /\ NonEmpty(StoredResults(session_state))
    /\ Len(cards) = Len(StoredResults(session_state))
    /\ ~notice


====
